---- MODULE Spec2Model ----
(***************************************************************************)
(* Hadamard secret sharing: HadamardMatrix (validation, normalization,     *)
(* incidence matrix), HSS (share / reconstruct / validate on u32 secrets)  *)
(* and the HadamardSSS wrapper with its threshold.                         *)
(*                                                                         *)
(* An Array2<i32> is a sequence of rows, each a sequence of integers.      *)
(* A u32 is the set of its set bit positions (a subset of 0..31): `|` is   *)
(* union, `&` is intersection, `^` is symmetric difference, `1 << p` is    *)
(* {p}.                                                                    *)
(***************************************************************************)
EXTENDS Integers, Sequences, FiniteSets, TLC

VARIABLES pc, op, outcome, cand, had, inc_out, thr_out,
          mtx, threshold, secret, res, parts, alt, rout, vout

vars == <<pc, op, outcome, cand, had, inc_out, thr_out,
          mtx, threshold, secret, res, parts, alt, rout, vout>>

-----------------------------------------------------------------------------
(* Bounds of the explored inputs.                                          *)

\* secrets are k and !k for k in 0..MaxSecret
MaxSecret == 1
\* outcomes of the random generator are numbered 0..MaxSeed
MaxSeed == 1
\* a share is altered by XOR with 43 or with 1 << b, b in 0..MaxMaskBit
MaxMaskBit == 1
\* schemes of up to MaxPool parties submit any subset of their shares
MaxPool == 7
\* larger schemes submit subsets of the shares of their last WidePool parties
WidePool == 3
\* candidate matrices: rows and columns with index below MaxFlip may be negated
MaxFlip == 3

-----------------------------------------------------------------------------
(* Array2<i32>                                                             *)

Rows(m) == Len(m)
Cols(m) == IF Len(m) = 0 THEN 0 ELSE Len(m[1])
At(m, i, j) == m[i + 1][j + 1]
is_square(m) == Rows(m) = Cols(m)

Min2(a, b) == IF a < b THEN a ELSE b

-----------------------------------------------------------------------------
(* u32                                                                     *)

secret_size == 32
BitPos == 0 .. (secret_size - 1)

\* the u32 with value k, 0 <= k < 2^31
Word(k) == {p \in 0 .. (secret_size - 2) : (k \div (2 ^ p)) % 2 = 1}
Not(w) == BitPos \ w
Xor(a, b) == (a \ b) \cup (b \ a)

-----------------------------------------------------------------------------
(* Candidate matrices handed to the constructors.                          *)

\* the order-8 matrix of the tests
Ref8 == << << 1,  1,  1,  1,  1,  1,  1,  1 >>,
           << 1, -1,  1, -1,  1, -1,  1, -1 >>,
           << 1,  1, -1, -1,  1,  1, -1, -1 >>,
           << 1, -1, -1,  1,  1, -1, -1,  1 >>,
           << 1,  1,  1,  1, -1, -1, -1, -1 >>,
           << 1, -1,  1, -1, -1,  1, -1,  1 >>,
           << 1,  1, -1, -1, -1, -1,  1,  1 >>,
           << 1, -1, -1,  1, -1,  1,  1, -1 >> >>

RECURSIVE SylvesterSign(_, _)
SylvesterSign(i, j) ==
    IF i = 0 \/ j = 0 THEN 1
    ELSE SylvesterSign(i \div 2, j \div 2)
           * (IF i % 2 = 1 /\ j % 2 = 1 THEN -1 ELSE 1)

\* the Sylvester matrix of order n (n a power of two)
Sylvester(n) == [i \in 1 .. n |-> [j \in 1 .. n |-> SylvesterSign(i - 1, j - 1)]]

H1 == << << 1 >> >>
H2 == << << 1, 1 >>, << 1, -1 >> >>
H4 == << << 1,  1,  1,  1 >>,
         << 1, -1,  1, -1 >>,
         << 1,  1, -1, -1 >>,
         << 1, -1, -1,  1 >> >>
H64 == Sylvester(64)

\* m with the rows in R and the columns in C negated
Negated(m, R, C) ==
    [i \in 1 .. Len(m) |-> [j \in 1 .. Len(m[i]) |->
        (IF (i - 1) \in R THEN -1 ELSE 1) * (IF (j - 1) \in C THEN -1 ELSE 1) * m[i][j]]]

SignVariants(m) ==
    LET idx == 0 .. (Min2(Rows(m), MaxFlip) - 1)
    IN  {Negated(m, R, C) : R \in SUBSET idx, C \in SUBSET idx}

\* candidates that are no Hadamard matrix
BadCandidates ==
    { << >>,
      << << >> >>,
      << << 1, 2 >>, << 3, 4 >> >>,
      << << 1, 0 >>, << 0, 1 >> >>,
      << << -1, -1 >>, << 1, 1 >> >>,
      << << 1, 1 >> >>,
      << << 1, 1, 1 >>, << 1, -1, 1 >> >>,
      << << 1, 1, 1 >>, << 1, -1, 1 >>, << 1, 1, -1 >> >> }

\* candidates handed to HadamardMatrix::from and to get_threshold
MatrixCandidates ==
    BadCandidates \cup SignVariants(H1) \cup SignVariants(H2)
        \cup SignVariants(H4) \cup SignVariants(Ref8)

\* candidates handed to HadamardSSS::from
SchemeCandidates ==
    BadCandidates \cup {H1, H2, Negated(H2, {0}, {1}), H4, Ref8, H64}

-----------------------------------------------------------------------------
(* hadamard_matrix.rs                                                      *)

RECURSIVE dot_sum(_, _, _)
dot_sum(a, b, j) == IF j = 0 THEN 0 ELSE a[j] * b[j] + dot_sum(a, b, j - 1)

is_hadamard(m) ==
    LET n == Rows(m)
    IN  IF ~is_square(m) \/ n < 1 THEN FALSE
        ELSE IF \E i, j \in 0 .. (n - 1) : At(m, i, j) # -1 /\ At(m, i, j) # 1 THEN FALSE
        ELSE LET eye_n    == [i \in 1 .. n |-> [k \in 1 .. n |-> IF i = k THEN n ELSE 0]]
                 mult_res == [i \in 1 .. n |-> [k \in 1 .. n |-> dot_sum(m[i], m[k], n)]]
             IN  IF eye_n # mult_res THEN FALSE ELSE TRUE

flip_row(m, r) ==
    [i \in 1 .. Len(m) |-> [j \in 1 .. Len(m[i]) |->
        IF i = r + 1 THEN m[i][j] * (-1) ELSE m[i][j]]]

flip_col(m, c) ==
    [i \in 1 .. Len(m) |-> [j \in 1 .. Len(m[i]) |->
        IF j = c + 1 THEN m[i][j] * (-1) ELSE m[i][j]]]

RECURSIVE normalize_loop(_, _)
normalize_loop(m, i) ==
    IF i >= Rows(m) THEN m
    ELSE LET a == IF At(m, i, 0) = -1 THEN flip_row(m, i) ELSE m
             b == IF At(a, 0, i) = -1 THEN flip_col(a, i) ELSE a
         IN  normalize_loop(b, i + 1)

\* a plausible slip: only the rows are flipped
RECURSIVE normalize_rows_only(_, _)
normalize_rows_only(m, i) ==
    IF i >= Rows(m) THEN m
    ELSE normalize_rows_only(IF At(m, i, 0) = -1 THEN flip_row(m, i) ELSE m, i + 1)

normalize_mut(m) == normalize_rows_only(m, 0)

normalize(m) == normalize_loop(m, 0)

get_incidence(m) ==
    LET n == Rows(m)
    IN  [i \in 1 .. (n - 1) |-> [j \in 1 .. (n - 1) |-> (m[i + 1][j + 1] + 1) \div 2]]

-----------------------------------------------------------------------------
(* lib.rs: threshold                                                       *)

get_threshold_mut(m) == (Rows(m) + 4) \div 2

get_threshold(m) == (Rows(m) + 3) \div 2

-----------------------------------------------------------------------------
(* scheme_impl.rs: HSS                                                     *)

Part(number_, data_) == [number |-> number_, data |-> data_]

\* (secret_size + n - 1) / n, for n > 0
times(n) == (secret_size + n - 1) \div n

\* rng.gen_range(0..=1) for cell j_id of row i, under outcome number seed of
\* the generator: all zeros, all ones, then stripes of width seed - 1
RngBit(seed, i, j_id) ==
    IF seed = 0 THEN 0
    ELSE IF seed = 1 THEN 1
    ELSE ((i + j_id) \div (seed - 1)) % 2

\* the cells (s_ind, j) visited by the two inner loops
Cells(n) == (0 .. (times(n) - 1)) \X (0 .. (n - 1))

\* a plausible slip: the filler cells copy the secret too
share_row_mut(m, i, secret_, seed) ==
    UNION { LET j_id == c[2] + c[1] * Rows(m)
            IN  IF j_id < secret_size THEN {j_id} \cap secret_ ELSE {}
          : c \in Cells(Rows(m)) }

\* what the inner loops OR into res[i].data: each cell sets its own bit j_id
share_row(m, i, secret_, seed) ==
    UNION { LET s_ind == c[1]
                j     == c[2]
                j_id  == j + s_ind * Rows(m)
            IN  IF j_id < secret_size
                THEN IF At(m, i, j) = 1
                     THEN {j_id} \cap secret_
                     ELSE IF RngBit(seed, i, j_id) = 1 THEN {j_id} ELSE {}
                ELSE {}
          : c \in Cells(Rows(m)) }

\* HSS::share; st = "panic" is the division by zero of `times`
hss_share(m, secret_, seed) ==
    LET n == Rows(m)
    IN  IF n = 0 THEN [st |-> "panic", val |-> << >>]
        ELSE [st |-> "ok",
              val |-> [r \in 1 .. n |-> Part(r - 1, share_row(m, r - 1, secret_, seed))]]

\* a plausible slip: only the first block of n bits is read (s_ind = 0)
reconstruct_row_mut(m, ps, i) ==
    UNION { IF j < secret_size /\ At(m, ps[i + 1].number, j) = 1
            THEN {j} \cap ps[i + 1].data
            ELSE {}
          : j \in 0 .. (Rows(m) - 1) }

\* what the inner loops OR into res for the share ps[i + 1]
reconstruct_row(m, ps, i) ==
    LET ind == ps[i + 1].number
    IN  UNION { LET s_ind == c[1]
                    j     == c[2]
                    j_id  == j + s_ind * Rows(m)
                IN  IF j_id < secret_size /\ At(m, ind, j) = 1
                    THEN {j_id} \cap ps[i + 1].data
                    ELSE {}
              : c \in Cells(Rows(m)) }

\* HSS::reconstruct; st = "panic" is the division by zero of `times`
hss_reconstruct(m, ps) ==
    IF Rows(m) = 0 THEN [st |-> "panic", val |-> {}]
    ELSE [st |-> "ok",
          val |-> UNION {reconstruct_row(m, ps, i) : i \in 0 .. (Len(ps) - 1)}]

\* cells[p][bit] as the positions i of ps that push into it: the cell of bit
\* position p is j = p % n of block s_ind = p / n
cells(m, ps, p, bit) ==
    LET n == Rows(m)
    IN  {i \in 1 .. Len(ps) :
            /\ p \div n < times(n)
            /\ At(m, ps[i].number, p % n) = 1
            /\ (IF p \in ps[i].data THEN 1 ELSE 0) = bit}

\* a plausible slip: on equal counts nobody is marked
marked_mut(m, ps) ==
    UNION { LET c0 == cells(m, ps, p, 0)
                c1 == cells(m, ps, p, 1)
            IN  IF Cardinality(c0) > Cardinality(c1) THEN {ps[i].number : i \in c1}
                ELSE IF Cardinality(c0) < Cardinality(c1) THEN {ps[i].number : i \in c0}
                ELSE {}
          : p \in BitPos }

\* the party numbers for which suspicious[ind] = true is executed
marked(m, ps) ==
    UNION { LET c0   == cells(m, ps, p, 0)
                c1   == cells(m, ps, p, 1)
                more == IF Cardinality(c0) > Cardinality(c1) THEN 1 ELSE 0
            IN  IF c0 # {} /\ c1 # {}
                THEN {ps[i].number : i \in (IF more = 1 THEN c1 ELSE c0)}
                ELSE {}
          : p \in BitPos }

\* the last loop: for i in 0..secret_size, push i if suspicious[i]
RECURSIVE collect(_, _, _)
collect(susp, i, acc) ==
    IF i >= secret_size THEN acc
    ELSE collect(susp, i + 1, IF i \in susp THEN Append(acc, i) ELSE acc)

\* HSS::validate; st = "panic" is the division by zero of `times`, or
\* suspicious[ind] with ind >= secret_size (suspicious has secret_size entries)
hss_validate(m, ps) ==
    IF Rows(m) = 0 THEN [st |-> "panic", val |-> << >>]
    ELSE LET susp == marked(m, ps)
         IN  IF \E ind \in susp : ind >= secret_size
             THEN [st |-> "panic", val |-> << >>]
             ELSE [st |-> "ok", val |-> collect(susp, 0, << >>)]

-----------------------------------------------------------------------------
(* lib.rs: HadamardSSS                                                     *)

\* HadamardMatrix::from
hadamard_matrix_from(c) ==
    IF is_hadamard(c) THEN [st |-> "ok", m |-> c]
    ELSE [st |-> "InvalidMatrix", m |-> << >>]

\* HadamardSSS::from; st = "panic" is expect("Error! ") on the Err
hadamard_sss_from(c) ==
    LET h == hadamard_matrix_from(c)
    IN  IF h.st # "ok" THEN [st |-> "panic", m |-> << >>, threshold |-> 0]
        ELSE LET incidence_mtx == get_incidence(normalize(h.m))
             IN  [st |-> "ok", m |-> incidence_mtx,
                  threshold |-> get_threshold(incidence_mtx)]

below_threshold_mut(len, threshold_) == len <= threshold_

\* parts.len() < self.threshold
below_threshold(len, threshold_) == len < threshold_

\* HadamardSSS::reconstruct
sss_reconstruct(m, threshold_, ps) ==
    IF below_threshold(Len(ps), threshold_)
    THEN [st |-> "BelowThreshold", val |-> {}]
    ELSE hss_reconstruct(m, ps)

-----------------------------------------------------------------------------
(* Inputs of the calls.                                                    *)

Secrets == UNION {{Word(k), Not(Word(k))} : k \in 0 .. MaxSecret}
Seeds == 0 .. MaxSeed
Masks == {Word(43)} \cup {{b} : b \in 0 .. MaxMaskBit}

\* the parties whose shares are handed to reconstruct and validate
Pool(n) == IF n <= MaxPool THEN 0 .. (n - 1) ELSE (n - WidePool) .. (n - 1)

NoAlt == [pos |-> 0, mask |-> {}]

\* the shares of the parties in S, in the order of res, the one at position
\* a.pos altered as the tests do: Part::from(number(), data() ^ mask)
Collection(shares, S, a) ==
    LET sel == SelectSeq(shares, LAMBDA p : p.number \in S)
    IN  [i \in 1 .. Len(sel) |->
            IF i = a.pos THEN Part(sel[i].number, Xor(sel[i].data, a.mask)) ELSE sel[i]]

\* no share altered, or (as in the tests) the first one of the collection
Alterations(S) ==
    {NoAlt} \cup (IF S = {} THEN {} ELSE {[pos |-> 1, mask |-> k] : k \in Masks})

-----------------------------------------------------------------------------
(* State machine.                                                          *)

Init ==
    /\ pc = "start"
    /\ op = "none"
    /\ outcome = "none"
    /\ cand = << >>
    /\ had = << >>
    /\ inc_out = << >>
    /\ thr_out = 0
    /\ mtx = << >>
    /\ threshold = 0
    /\ secret = {}
    /\ res = << >>
    /\ parts = << >>
    /\ alt = NoAlt
    /\ rout = {}
    /\ vout = << >>

\* HadamardMatrix::from(&c)
HMFrom(c) ==
    /\ pc = "start"
    /\ LET r == hadamard_matrix_from(c)
       IN  /\ pc' = IF r.st = "ok" THEN "hm_built" ELSE "hm_failed"
           /\ outcome' = r.st
           /\ had' = r.m
    /\ op' = "HadamardMatrix::from"
    /\ cand' = c
    /\ UNCHANGED <<inc_out, thr_out, mtx, threshold, secret, res, parts, alt, rout, vout>>

\* had.normalize()
Normalize ==
    /\ pc \in {"hm_built", "hm_normalized"}
    /\ had' = normalize(had)
    /\ pc' = "hm_normalized"
    /\ op' = "normalize"
    /\ UNCHANGED <<outcome, cand, inc_out, thr_out, mtx, threshold, secret, res, parts,
                   alt, rout, vout>>

\* had.get_incidence()
GetIncidence ==
    /\ pc \in {"hm_built", "hm_normalized"}
    /\ inc_out' = get_incidence(had)
    /\ pc' = "hm_incidence"
    /\ op' = "get_incidence"
    /\ UNCHANGED <<outcome, cand, had, thr_out, mtx, threshold, secret, res, parts,
                   alt, rout, vout>>

\* matrices handed to get_threshold: the candidates and the incidence matrices
ThresholdInputs ==
    MatrixCandidates \cup {get_incidence(normalize(c)) : c \in {H1, H2, H4, Ref8}}

\* HadamardSSS::get_threshold(&c)
GetThreshold(c) ==
    /\ pc = "start"
    /\ thr_out' = get_threshold(c)
    /\ cand' = c
    /\ pc' = "thr_done"
    /\ op' = "get_threshold"
    /\ UNCHANGED <<outcome, had, inc_out, mtx, threshold, secret, res, parts, alt, rout, vout>>

\* HadamardSSS::from(&c)
SSSFrom(c) ==
    /\ pc = "start"
    /\ LET r == hadamard_sss_from(c)
       IN  /\ pc' = IF r.st = "ok" THEN "ready" ELSE "panicked"
           /\ outcome' = r.st
           /\ mtx' = r.m
           /\ threshold' = r.threshold
    /\ op' = "HadamardSSS::from"
    /\ cand' = c
    /\ UNCHANGED <<had, inc_out, thr_out, secret, res, parts, alt, rout, vout>>

\* hsss.share(s)
Share(s, seed) ==
    /\ pc = "ready"
    /\ LET r == hss_share(mtx, s, seed)
       IN  /\ pc' = IF r.st = "ok" THEN "shared" ELSE "panicked"
           /\ outcome' = r.st
           /\ res' = r.val
    /\ op' = "share"
    /\ secret' = s
    /\ UNCHANGED <<cand, had, inc_out, thr_out, mtx, threshold, parts, alt, rout, vout>>

\* hsss.reconstruct(ps), ps a collection of the shares returned by share
Reconstruct(S, a) ==
    /\ pc \in {"ready", "shared"}
    /\ LET ps == Collection(res, S, a)
           r  == sss_reconstruct(mtx, threshold, ps)
       IN  /\ parts' = ps
           /\ pc' = IF r.st = "panic" THEN "panicked" ELSE "called"
           /\ outcome' = r.st
           /\ rout' = r.val
    /\ alt' = a
    /\ op' = "reconstruct"
    /\ UNCHANGED <<cand, had, inc_out, thr_out, mtx, threshold, secret, res, vout>>

\* hsss.validate(ps), ps a collection of the shares returned by share
Validate(S, a) ==
    /\ pc \in {"ready", "shared"}
    /\ LET ps == Collection(res, S, a)
           r  == hss_validate(mtx, ps)
       IN  /\ parts' = ps
           /\ pc' = IF r.st = "panic" THEN "panicked" ELSE "called"
           /\ outcome' = r.st
           /\ vout' = r.val
    /\ alt' = a
    /\ op' = "validate"
    /\ UNCHANGED <<cand, had, inc_out, thr_out, mtx, threshold, secret, res, rout>>

\* the parties whose shares the caller holds and may hand in
Submittable == {res[i].number : i \in 1 .. Len(res)} \cap Pool(Rows(mtx))

Next ==
    \/ \E c \in MatrixCandidates : HMFrom(c)
    \/ Normalize
    \/ GetIncidence
    \/ \E c \in ThresholdInputs : GetThreshold(c)
    \/ \E c \in SchemeCandidates : SSSFrom(c)
    \/ \E s \in Secrets, seed \in Seeds : Share(s, seed)
    \/ \E S \in SUBSET Submittable : \E a \in Alterations(S) : Reconstruct(S, a)
    \/ \E S \in SUBSET Submittable : \E a \in Alterations(S) : Validate(S, a)

Spec == Init /\ [][Next]_vars

-----------------------------------------------------------------------------
(* Properties.                                                             *)

\* square, non-empty, every entry -1 or +1, and M * M^T = n * I
IsHadamard(m) ==
    /\ Len(m) >= 1
    /\ \A i \in 1 .. Len(m) : Len(m[i]) = Len(m)
    /\ \A i, j \in 1 .. Len(m) : m[i][j] \in {-1, 1}
    /\ \A i, k \in 1 .. Len(m) :
         dot_sum(m[i], m[k], Len(m)) = (IF i = k THEN Len(m) ELSE 0)

\* the bit positions some party of P attests: incidence[i][p mod n] = 1
Covered(P) == {p \in BitPos : \E i \in P : At(mtx, i, p % Rows(mtx)) = 1}

\* the payload tuples share can hand the parties of P for the secret s
Views(P, s) == {[i \in P |-> share_row(mtx, i, s, k)] : k \in Seeds}

\* what the parties of P hold after share
Seen(P) == [i \in P |-> res[i + 1].data]

IsAscendingListOf(seq, S) ==
    /\ {seq[i] : i \in 1 .. Len(seq)} = S
    /\ \A i \in 1 .. (Len(seq) - 1) : seq[i] < seq[i + 1]

\* the prefix res[0..5] of the tests
IsPrefix(ps) == \A i \in 1 .. Len(ps) : ps[i].number = i - 1

(* C1: for the scheme built from the order-8 matrix of the tests (7 parties, *)
(* threshold 5), reconstruct on any 5 distinct unaltered shares of share(s)  *)
(* returns s, whatever the secret and the filler bits.                       *)
C1_AnyFiveOfSeven ==
    (op = "reconstruct" /\ cand = Ref8 /\ alt = NoAlt /\ Len(parts) = 5)
        => (Rows(mtx) = 7 /\ threshold = 5 /\ outcome = "ok" /\ rout = secret)

C1_Witness ==
    /\ op = "reconstruct" /\ cand = Ref8 /\ alt = NoAlt /\ Len(parts) = 5
    /\ ~IsPrefix(parts)
    /\ secret = Not(Word(1))
    /\ rout = secret

(* C2: every scheme built from a matrix that passes is_hadamard can split   *)
(* any secret, and reconstruct on any unaltered subset of the shares of     *)
(* size at least the threshold returns the secret.                          *)
C2_AnyHadamardScheme ==
    /\ op = "share" => (outcome = "ok" /\ Len(res) = Rows(mtx))
    /\ (op = "reconstruct" /\ alt = NoAlt /\ Len(parts) >= threshold)
          => (outcome = "ok" /\ rout = secret)

(* C3 as claimed: for any set P of fewer than threshold parties, the        *)
(* payload tuples share can produce for P are the same for every secret.    *)
C3_NoInformation ==
    pc = "shared" =>
        \A P \in SUBSET Submittable :
            Cardinality(P) < threshold =>
                \A s2 \in Secrets : Views(P, s2) = Views(P, secret)

(* C3 amended: the payload tuples share can produce for a set P of parties  *)
(* are the same for two secrets exactly when the secrets agree on every bit *)
(* position some party of P attests (otherwise no tuple is common to both); *)
(* what P holds is one of the tuples of the secret shared.                  *)
C3_RevealsAttestedBits ==
    pc = "shared" =>
        \A P \in SUBSET Submittable :
            LET mine == Views(P, secret)
                cov  == Covered(P)
            IN  /\ Seen(P) \in mine
                /\ \A s2 \in Secrets :
                     LET other == Views(P, s2)
                     IN  /\ (other = mine) <=> (s2 \cap cov = secret \cap cov)
                         /\ (s2 \cap cov # secret \cap cov) => (other \cap mine = {})

C3_Witness ==
    /\ pc = "shared" /\ cand = Ref8 /\ secret = Word(1)
    /\ Views({0}, Word(0)) = Views({0}, secret)
    /\ Views({1}, Word(0)) # Views({1}, secret)
    /\ Cardinality({1}) < threshold

(* C4: construction (HadamardMatrix::from and HadamardSSS::from) succeeds   *)
(* exactly when the candidate is a Hadamard matrix, and otherwise returns   *)
(* the InvalidMatrix error to the caller.                                   *)
C4_ConstructionContract ==
    op \in {"HadamardMatrix::from", "HadamardSSS::from"} =>
        /\ outcome = "ok" <=> IsHadamard(cand)
        /\ ~IsHadamard(cand) => outcome = "InvalidMatrix"

(* C5: HadamardSSS::reconstruct returns BelowThreshold exactly when fewer   *)
(* shares than the threshold are supplied, and otherwise what               *)
(* HSS::reconstruct computes on the same shares.                            *)
C5_BelowThreshold ==
    op = "reconstruct" =>
        /\ outcome = "BelowThreshold" <=> Len(parts) < threshold
        /\ Len(parts) >= threshold =>
              LET r == hss_reconstruct(mtx, parts)
              IN  outcome = r.st /\ rout = r.val

C5_Witness ==
    /\ op = "reconstruct" /\ cand = Ref8
    /\ Len(parts) = threshold - 1
    /\ outcome = "BelowThreshold"

\* the party whose share is altered, and the flipped bits its row attests
AlteredParty == parts[alt.pos].number
FlippedAttested ==
    IF alt.pos = 0 THEN {}
    ELSE {p \in alt.mask : At(mtx, AlteredParty, p % Rows(mtx)) = 1}
\* the other shares of the collection whose row attests bit position p
OtherAttesters(p) ==
    {i \in 1 .. Len(parts) : i # alt.pos /\ At(mtx, parts[i].number, p % Rows(mtx)) = 1}

(* C6 as claimed: for the order-8 scheme and a threshold-sized set S of     *)
(* shares of share(s) with at most one payload altered, validate(S) is      *)
(* empty if and only if reconstruct(S) equals s.                            *)
C6_ValidIffReconstructs ==
    (cand = Ref8 /\ pc = "called" /\ Len(parts) = threshold) =>
        /\ op = "validate" =>
              ((vout = << >>) <=> (hss_reconstruct(mtx, parts).val = secret))
        /\ op = "reconstruct" =>
              ((rout = secret) <=> (hss_validate(mtx, parts).val = << >>))

(* C6 amended: for the order-8 scheme and a threshold-sized set S with at   *)
(* most one payload altered, validate(S) is empty iff no flipped bit that   *)
(* the altered share's row attests is attested by another share of S, and   *)
(* reconstruct(S) equals s iff every such bit is 1 in s and is attested by  *)
(* another share of S; the two coincide for an unaltered S and for the      *)
(* tests' S (the prefix with share 0 XOR 43).                               *)
C6_ValidateAndReconstructAltered ==
    (cand = Ref8 /\ pc = "called" /\ Len(parts) = threshold) =>
        /\ op = "validate" =>
              ((vout = << >>) <=> (\A p \in FlippedAttested : OtherAttesters(p) = {}))
        /\ op = "reconstruct" =>
              ((rout = secret)
                  <=> (\A p \in FlippedAttested : p \in secret /\ OtherAttesters(p) # {}))
        /\ (IsPrefix(parts) /\ alt.mask \in {{}, Word(43)}) =>
              ((hss_validate(mtx, parts).val = << >>)
                  <=> (hss_reconstruct(mtx, parts).val = secret))

C6_Witness ==
    /\ cand = Ref8 /\ pc = "called" /\ op = "validate" /\ Len(parts) = threshold
    /\ alt.pos = 1 /\ FlippedAttested # {}
    /\ vout = << >>
    /\ hss_reconstruct(mtx, parts).val # secret

(* C7: share, reconstruct and validate never fail on well-formed inputs,    *)
(* for every scheme built from a matrix that passes is_hadamard.            *)
C7_NeverFails ==
    op \in {"share", "reconstruct", "validate"} => outcome # "panic"

(* C8 as claimed: get_threshold returns the ceiling of (d + 3) / 2 for      *)
(* every incidence dimension d, and 5 for d = 7.                            *)
C8_CeilingThreshold ==
    /\ op = "get_threshold" =>
          /\ 2 * thr_out >= Rows(cand) + 3
          /\ 2 * (thr_out - 1) < Rows(cand) + 3
          /\ Rows(cand) = 7 => thr_out = 5
    /\ pc \in {"ready", "shared", "called"} =>
          /\ 2 * threshold >= Rows(mtx) + 3
          /\ 2 * (threshold - 1) < Rows(mtx) + 3

(* C8 amended: get_threshold returns the integer division (d + 3) / 2, the  *)
(* floor of (d + 3) / 2, which is its ceiling exactly when d is odd; it     *)
(* returns 5 for d = 7.                                                     *)
C8_FloorThreshold ==
    /\ op = "get_threshold" =>
          /\ 2 * thr_out <= Rows(cand) + 3
          /\ 2 * (thr_out + 1) > Rows(cand) + 3
          /\ (2 * thr_out >= Rows(cand) + 3) <=> (Rows(cand) % 2 = 1)
          /\ Rows(cand) = 7 => thr_out = 5
    /\ pc \in {"ready", "shared", "called"} =>
          /\ 2 * threshold <= Rows(mtx) + 3
          /\ 2 * (threshold + 1) > Rows(mtx) + 3
          /\ Rows(mtx) = 7 => threshold = 5

C8_Witness ==
    /\ op = "get_threshold" /\ Rows(cand) = 8 /\ thr_out = 5

(* C9: after normalize, row 0 and column 0 of a Hadamard matrix are all +1, *)
(* the matrix is still a Hadamard matrix, and normalizing it again changes  *)
(* nothing.                                                                 *)
C9_Normalized ==
    pc = "hm_normalized" =>
        /\ \A i \in 1 .. Len(had) : had[1][i] = 1 /\ had[i][1] = 1
        /\ IsHadamard(had)
        /\ Len(had) = Len(cand)
        /\ normalize(had) = had

C9_Witness ==
    /\ pc = "hm_normalized" /\ Len(had) = 8
    /\ cand[1][1] = -1 /\ cand[1][2] = 1 /\ cand[2][1] = 1
    /\ had # cand

\* the parties voting bit on position p: through a cell incidence[i][j] = 1
\* with j_id = p
Voters(p, bit) ==
    {parts[i].number : i \in
        {i \in 1 .. Len(parts) :
            /\ At(mtx, parts[i].number, p % Rows(mtx)) = 1
            /\ (p \in parts[i].data) = (bit = 1)}}

Conflicting == {p \in BitPos : Voters(p, 0) # {} /\ Voters(p, 1) # {}}

Suspicious ==
    UNION {IF Cardinality(Voters(p, 1)) < Cardinality(Voters(p, 0))
           THEN Voters(p, 1) ELSE Voters(p, 0) : p \in Conflicting}

(* C10: validate returns, ascending and without repeats, exactly the        *)
(* parties that on some bit position with both zero-voters and one-voters   *)
(* are in the strictly smaller voter set (the zero-voters on equal sizes);  *)
(* so the result is empty exactly when no position has both.                *)
C10_ValidateResult ==
    op = "validate" =>
        /\ outcome = "ok"
        /\ IsAscendingListOf(vout, Suspicious)
        /\ (vout = << >>) <=> (Conflicting = {})

(* C11: share(secret) on an incidence matrix of dimension n returns exactly  *)
(* n shares in row order, share i tagged with party index i, and for every  *)
(* bit position p < 32 with incidence[i][p mod n] = 1, bit p of share i's   *)
(* payload equals bit p of the secret.                                      *)
C11_ShareResult ==
    op = "share" =>
        /\ outcome = "ok"
        /\ Len(res) = Rows(mtx)
        /\ \A i \in 0 .. (Rows(mtx) - 1) :
              /\ res[i + 1].number = i
              /\ \A p \in BitPos :
                    At(mtx, i, p % Rows(mtx)) = 1
                        => ((p \in res[i + 1].data) <=> (p \in secret))

====
